---- MODULE Spec2Model ----
(***************************************************************************)
(* MQTT 3.1.1 packet codec (mqttrs): the streaming decoder of              *)
(* src/decoder.rs, the Publish codec of src/publish.rs and the Subscribe / *)
(* Suback / Unsubscribe codecs of src/subscribe.rs.                        *)
(*                                                                         *)
(* A peer encodes packets (or sends arbitrary bytes) onto a wire, the      *)
(* transport delivers the wire to the byte accumulator in chunks, and the  *)
(* caller runs decode on the accumulator.  A Rust panic (unwrap on None /  *)
(* Err, split_to or get_u8 out of bounds) is the outcome "Panic".          *)
(***************************************************************************)
EXTENDS Integers, Sequences, FiniteSets, TLC

VARIABLES wire, buffer, sent, before, result, pc, capacity, rt

vars == <<wire, buffer, sent, before, result, pc, capacity, rt>>

(***************************************************************************)
(* Bounds of the model.                                                    *)
(***************************************************************************)
\* longest raw (hand-made) body a peer sends after a header
MaxBody == 3
\* largest remaining-length byte of a raw single-byte header
MaxRawLen == 5
\* longest accumulator prefix the transport builds chunk by chunk
MaxPrefix == 14
\* length of the long payload (remaining length >= 128: two length bytes)
LongLen == 126
\* capacity of Publish.payload (type parameter PayloadLen) of the stream decoder
PayloadLen == 130
\* length of the huge payload (remaining length >= 128^3: four length bytes)
HugeLen == 2097150
\* length of the large payload (remaining length >= 128^2: three length bytes)
LargeLen == 16382
\* payload lengths 0..MaxSmall of the round-trip harness
MaxSmall == 8
\* capacity of Subscribe.topics (type parameter SubReq)
SubReq == 2
\* capacity of Unsubscribe.topics (type parameter UnsubReq)
UnsubReq == 2
\* capacity of Suback.return_codes (type parameter SubackReq)
SubackReq == 2

(***************************************************************************)
(* Byte-sequence helpers (bytes::BytesMut).                                *)
(***************************************************************************)
Byte == 0..255

Take(s, n) == SubSeq(s, 1, n)

Drop(s, n) == SubSeq(s, n + 1, Len(s))

\* results of the fallible steps: Ok(value), Err(error) or a panic, each with
\* the bytes left in the buffer the step was reading from
NoErr == [name |-> "none", n |-> 0]

MkErr(name, n) == [name |-> name, n |-> n]

Ok(v, rest) == [kind |-> "Ok", val |-> v, err |-> NoErr, rest |-> rest]

Err(e, rest) == [kind |-> "Err", val |-> 0, err |-> e, rest |-> rest]

Panic(rest) == [kind |-> "Panic", val |-> 0, err |-> NoErr, rest |-> rest]

(***************************************************************************)
(* Values of src/utils.rs and src/header.rs, files that are not part of    *)
(* the sources at hand: modelled from sections 3, 4.2 and 6.               *)
(***************************************************************************)
\* cap of the multiplier in read_length (section 6: 128^3)
MULTIPLIER == 2097152

\* QoS::from_u8
QoS_from_u8(b) == IF b \in {0, 1, 2} THEN Ok(b, <<>>) ELSE Err(MkErr("InvalidQoS", b), <<>>)

\* Pid::from_buffer: two bytes, big endian; 0 is rejected
Pid_from_buffer(buf) ==
    IF Len(buf) < 2 THEN Panic(buf)
    ELSE LET v == buf[1] * 256 + buf[2]
         IN  IF v = 0 THEN Err(MkErr("InvalidPid", 0), Drop(buf, 2))
             ELSE Ok(v, Drop(buf, 2))

\* the packet type of a high nibble
PacketTypeOf(n) ==
    CASE n = 1 -> "Connect"
      [] n = 2 -> "Connack"
      [] n = 3 -> "Publish"
      [] n = 4 -> "Puback"
      [] n = 5 -> "Pubrec"
      [] n = 6 -> "Pubrel"
      [] n = 7 -> "Pubcomp"
      [] n = 8 -> "Subscribe"
      [] n = 9 -> "Suback"
      [] n = 10 -> "Unsubscribe"
      [] n = 11 -> "Unsuback"
      [] n = 12 -> "Pingreq"
      [] n = 13 -> "Pingresp"
      [] n = 14 -> "Disconnect"
      [] OTHER -> "Invalid"

\* the low nibble a first byte must carry
FlagsOk(hd) ==
    LET typ == hd \div 16
        low == hd % 16
    IN  CASE typ \in {0, 15} -> FALSE
          [] typ = 3 -> (low \div 2) % 4 # 3
          [] typ \in {6, 8, 10} -> low = 2
          [] OTHER -> low = 0

\* Header::new
Header_new(hd, len) ==
    IF ~FlagsOk(hd) THEN Err(MkErr("InvalidHeader", 0), <<>>)
    ELSE IF hd \div 16 = 3
         THEN Ok([typ |-> "Publish", dup |-> (hd \div 8) % 2 = 1, qos |-> (hd \div 2) % 4,
                  retain |-> hd % 2 = 1, len |-> len], <<>>)
         ELSE Ok([typ |-> PacketTypeOf(hd \div 16), dup |-> FALSE, qos |-> 0,
                  retain |-> FALSE, len |-> len], <<>>)

(***************************************************************************)
(* src/decoder.rs                                                          *)
(***************************************************************************)
\* the ? operator: go on with F on Ok, return the error (or unwind) otherwise
Try(r, F(_)) == IF r.kind = "Ok" THEN F(r) ELSE r

\* unwrap: go on with F on Ok, panic otherwise
Unwrap(r, F(_)) == IF r.kind = "Ok" THEN F(r) ELSE Panic(r.rest)

\* the result r of a step that left rest in the buffer
WithRest(r, rest) == [r EXCEPT !.rest = rest]

\* Option::None
None(rest) == Err(MkErr("None", 0), rest)

RECURSIVE read_length_loop(_, _, _, _)
\* the loop of read_length: pos is the 0-based index of the byte read next
read_length_loop(buf, pos, mult, len) ==
    IF pos >= Len(buf) THEN Panic(buf)
    ELSE LET byte == buf[pos + 1]
             len2 == len + (byte % 128) * mult
             mult2 == mult * 128
         IN  IF mult2 > MULTIPLIER THEN None(buf)
             ELSE IF byte \div 128 = 0 THEN Ok([len |-> len2, pos |-> pos], buf)
             ELSE read_length_loop(buf, pos + 1, mult2, len2)

\* read_length: Ok([len, pos]) is Some((len, pos))
read_length(buf, pos) == read_length_loop(buf, pos, 1, 0)

\* read_header: Ok([header, size]) is Some((header, size))
read_header(buf) ==
    IF Len(buf) > 1
    THEN Try(read_length(buf, 1), LAMBDA l :
             Unwrap(WithRest(Header_new(buf[1], l.val.len), buf), LAMBDA h :
                 Ok([header |-> h.val, size |-> l.val.pos + 1], buf)))
    ELSE None(buf)

\* read_bytes
read_bytes(buf) ==
    IF Len(buf) < 2 THEN Panic(buf)
    ELSE LET len == buf[1] * 256 + buf[2]
         IN  IF len > Len(buf) - 2 THEN Err(MkErr("InvalidLength", len), Drop(buf, 2))
             ELSE Ok(SubSeq(buf, 3, 2 + len), Drop(buf, 2 + len))

IsCont(b) == b >= 128 /\ b <= 191

RECURSIVE from_utf8(_, _)
\* String::from_utf8 from index i on: TRUE iff the bytes are well-formed UTF-8
from_utf8(s, i) ==
    IF i > Len(s) THEN TRUE
    ELSE LET b == s[i]
             n == Len(s) - i
         IN  IF b < 128 THEN from_utf8(s, i + 1)
             ELSE IF b >= 194 /\ b <= 223
                  THEN n >= 1 /\ IsCont(s[i + 1]) /\ from_utf8(s, i + 2)
             ELSE IF b >= 224 /\ b <= 239
                  THEN /\ n >= 2
                       /\ IsCont(s[i + 1])
                       /\ (b = 224 => s[i + 1] >= 160)
                       /\ (b = 237 => s[i + 1] <= 159)
                       /\ IsCont(s[i + 2])
                       /\ from_utf8(s, i + 3)
             ELSE IF b >= 240 /\ b <= 244
                  THEN /\ n >= 3
                       /\ IsCont(s[i + 1])
                       /\ (b = 240 => s[i + 1] >= 144)
                       /\ (b = 244 => s[i + 1] <= 143)
                       /\ IsCont(s[i + 2])
                       /\ IsCont(s[i + 3])
                       /\ from_utf8(s, i + 4)
             ELSE FALSE

\* read_string without the UTF-8 check
read_string_unchecked(buf) == read_bytes(buf)

\* read_string
read_string(buf) ==
    Try(read_bytes(buf), LAMBDA b :
        IF from_utf8(b.val, 1) THEN b ELSE Err(MkErr("InvalidString", 0), b.rest))

(***************************************************************************)
(* src/publish.rs                                                          *)
(***************************************************************************)
\* Publish::from_buffer
Publish_from_buffer(header, buf) ==
    Try(read_string(buf), LAMBDA t :
        Try(IF header.qos = 0 THEN Ok(0, t.rest) ELSE Pid_from_buffer(t.rest), LAMBDA p :
            IF Len(p.rest) > capacity
            THEN Err(MkErr("BufferTooSmall", 0), p.rest)
            ELSE Ok([type |-> "Publish", dup |-> header.dup,
                     qospid |-> [qos |-> header.qos, pid |-> p.val],
                     retain |-> header.retain, topic_name |-> t.val,
                     payload |-> p.rest], <<>>)))

(***************************************************************************)
(* src/subscribe.rs                                                        *)
(***************************************************************************)
\* Buf::get_u8: panics on an empty buffer
get_u8(buf) == IF Len(buf) = 0 THEN Panic(buf) ELSE Ok(buf[1], Drop(buf, 1))

RECURSIVE Subscribe_loop(_, _)
\* the while loop of Subscribe::from_buffer
Subscribe_loop(buf, topics) ==
    IF Len(buf) = 0 THEN Ok(topics, buf)
    ELSE Try(read_string(buf), LAMBDA t :
             Try(get_u8(t.rest), LAMBDA b :
                 Try(WithRest(QoS_from_u8(b.val), b.rest), LAMBDA q :
                     IF Len(topics) >= SubReq
                     THEN Err(MkErr("BufferTooSmall", 0), q.rest)
                     ELSE Subscribe_loop(q.rest,
                              Append(topics, [topic_path |-> t.val, qos |-> q.val])))))

\* Subscribe::from_buffer
Subscribe_from_buffer(buf) ==
    Try(Pid_from_buffer(buf), LAMBDA p :
        Try(Subscribe_loop(p.rest, <<>>), LAMBDA l :
            Ok([type |-> "Subscribe", pid |-> p.val, topics |-> l.val], <<>>)))

RECURSIVE Unsubscribe_loop(_, _)
\* the while loop of Unsubscribe::from_buffer
Unsubscribe_loop(buf, topics) ==
    IF Len(buf) = 0 THEN Ok(topics, buf)
    ELSE Try(read_string(buf), LAMBDA t :
             IF Len(topics) >= UnsubReq
             THEN Err(MkErr("BufferTooSmall", 0), t.rest)
             ELSE Unsubscribe_loop(t.rest, Append(topics, t.val)))

\* Unsubscribe::from_buffer
Unsubscribe_from_buffer(buf) ==
    Try(Pid_from_buffer(buf), LAMBDA p :
        Try(Unsubscribe_loop(p.rest, <<>>), LAMBDA l :
            Ok([type |-> "Unsubscribe", pid |-> p.val, topics |-> l.val], <<>>)))

\* SubscribeReturnCodes
Failure == [success |-> FALSE, qos |-> 0]

Success(qos) == [success |-> TRUE, qos |-> qos]

\* SubscribeReturnCodes::to_u8
to_u8(rc) == IF rc.success THEN rc.qos ELSE 128

\* the return code of a byte: Failure for 0x80, Success(QoS::from_u8(code)?) otherwise
ReturnCodeOf(code) ==
    IF code = 128 THEN Ok(Failure, <<>>)
    ELSE Try(QoS_from_u8(code), LAMBDA q : Ok(Success(q.val), <<>>))

RECURSIVE Suback_loop(_, _)
\* the while loop of Suback::from_buffer
Suback_loop(buf, codes) ==
    IF Len(buf) = 0 THEN Ok(codes, buf)
    ELSE Try(WithRest(ReturnCodeOf(buf[1]), Drop(buf, 1)), LAMBDA r :
             IF Len(codes) >= SubackReq
             THEN Err(MkErr("BufferTooSmall", 0), r.rest)
             ELSE Suback_loop(r.rest, Append(codes, r.val)))

\* Suback::from_buffer
Suback_from_buffer(buf) ==
    Try(Pid_from_buffer(buf), LAMBDA p :
        Try(Suback_loop(p.rest, <<>>), LAMBDA l :
            Ok([type |-> "Suback", pid |-> p.val, return_codes |-> l.val], <<>>)))

(***************************************************************************)
(* src/connect.rs is not part of the sources at hand: Connect and Connack  *)
(* bodies are modelled from section 4.4.                                   *)
(***************************************************************************)
\* a field that is present iff its connect flag is set
OptField(present, isString, buf) ==
    IF ~present THEN Ok(<<>>, buf)
    ELSE IF isString THEN read_string(buf) ELSE read_bytes(buf)

\* the protocol of a (name, level) pair: "MQTT"/4 or "MQIsdp"/3
ProtocolOf(name, level) ==
    IF name = <<77, 81, 84, 84>> /\ level = 4 THEN "MQTT311"
    ELSE IF name = <<77, 81, 73, 115, 100, 112>> /\ level = 3 THEN "MQIsdp"
    ELSE "Invalid"

\* bit i of a byte
Bit(b, i) == (b \div (2 ^ i)) % 2 = 1

\* the cross-rules of the connect flags
ConnectFlagsOk(flags) ==
    /\ ~Bit(flags, 0)
    /\ (~Bit(flags, 2) => ~Bit(flags, 3) /\ ~Bit(flags, 4) /\ ~Bit(flags, 5))
    /\ (Bit(flags, 3) => ~Bit(flags, 4))
    /\ (Bit(flags, 6) => Bit(flags, 7))

\* protocol level, connect flags, keep-alive: Ok([level, flags, keep_alive])
Connect_fixed(name, buf) ==
    IF Len(buf) < 1 THEN Panic(buf)
    ELSE IF ProtocolOf(name, buf[1]) = "Invalid"
         THEN Err(MkErr("InvalidProtocol", buf[1]), Drop(buf, 1))
    ELSE IF Len(buf) < 4 THEN Panic(buf)
    ELSE Ok([level |-> buf[1], flags |-> buf[2], keep_alive |-> buf[3] * 256 + buf[4]],
            Drop(buf, 4))

\* Connect::from_buffer
Connect_from_buffer(buf) ==
    Try(read_string(buf), LAMBDA name :
     Try(Connect_fixed(name.val, name.rest), LAMBDA f :
      Try(read_string(f.rest), LAMBDA id :
       Try(OptField(Bit(f.val.flags, 2), TRUE, id.rest), LAMBDA wt :
        Try(OptField(Bit(f.val.flags, 2), FALSE, wt.rest), LAMBDA wm :
         Try(OptField(Bit(f.val.flags, 7), TRUE, wm.rest), LAMBDA un :
          Try(OptField(Bit(f.val.flags, 6), FALSE, un.rest), LAMBDA pw :
           IF ~ConnectFlagsOk(f.val.flags) THEN Err(MkErr("InvalidHeader", 0), pw.rest)
           ELSE Ok([type |-> "Connect",
                    protocol |-> ProtocolOf(name.val, f.val.level),
                    keep_alive |-> f.val.keep_alive,
                    client_id |-> id.val,
                    clean_session |-> Bit(f.val.flags, 1),
                    last_will |-> [some |-> Bit(f.val.flags, 2), topic |-> wt.val,
                                   message |-> wm.val, qos |-> (f.val.flags \div 8) % 4,
                                   retain |-> Bit(f.val.flags, 5)],
                    username |-> [some |-> Bit(f.val.flags, 7), val |-> un.val],
                    password |-> [some |-> Bit(f.val.flags, 6), val |-> pw.val]],
                   <<>>))))))))

\* Connack::from_buffer
Connack_from_buffer(buf) ==
    IF Len(buf) < 2 THEN Panic(buf)
    ELSE IF buf[1] > 1 THEN Err(MkErr("InvalidHeader", 0), Drop(buf, 1))
    ELSE IF buf[2] > 5 THEN Err(MkErr("InvalidConnectReturnCode", buf[2]), Drop(buf, 2))
    ELSE Ok([type |-> "Connack", session_present |-> buf[1] = 1, code |-> buf[2]], <<>>)

(***************************************************************************)
(* src/decoder.rs: the dispatcher                                          *)
(***************************************************************************)
\* a Pid-only packet read from the accumulator itself
PidPacket(typ, buf) ==
    Try(Pid_from_buffer(buf), LAMBDA p : Ok([type |-> typ, pid |-> p.val], p.rest))

\* the body buffer.split_to(header.len()) hands to a body decoder
Body_of(header, buf) == Take(buf, header.len)

\* what split_to(header.len()) leaves in the accumulator, whatever the body
\* decoder does to its view
Rest_of(header, buf) == Drop(buf, header.len)

\* read_packet that hands Publish::from_buffer the accumulator instead of the body
read_packet_whole(header, buf) ==
    CASE header.typ \in {"Pingreq", "Pingresp", "Disconnect"} ->
           Ok([type |-> header.typ], buf)
      [] header.typ = "Connect" ->
           WithRest(Connect_from_buffer(Body_of(header, buf)), Rest_of(header, buf))
      [] header.typ = "Connack" ->
           WithRest(Connack_from_buffer(Body_of(header, buf)), Rest_of(header, buf))
      [] header.typ = "Publish" ->
           WithRest(Publish_from_buffer(header, buf), <<>>)
      [] header.typ \in {"Puback", "Pubrec", "Pubrel", "Pubcomp", "Unsuback"} ->
           PidPacket(header.typ, buf)
      [] header.typ = "Subscribe" ->
           WithRest(Subscribe_from_buffer(Body_of(header, buf)), Rest_of(header, buf))
      [] header.typ = "Suback" ->
           WithRest(Suback_from_buffer(Body_of(header, buf)), Rest_of(header, buf))
      [] header.typ = "Unsubscribe" ->
           WithRest(Unsubscribe_from_buffer(Body_of(header, buf)), Rest_of(header, buf))

\* read_packet: buf is the accumulator with the header bytes removed
read_packet(header, buf) ==
    CASE header.typ \in {"Pingreq", "Pingresp", "Disconnect"} ->
           Ok([type |-> header.typ], buf)
      [] header.typ = "Connect" ->
           WithRest(Connect_from_buffer(Body_of(header, buf)), Rest_of(header, buf))
      [] header.typ = "Connack" ->
           WithRest(Connack_from_buffer(Body_of(header, buf)), Rest_of(header, buf))
      [] header.typ = "Publish" ->
           WithRest(Publish_from_buffer(header, Body_of(header, buf)), Rest_of(header, buf))
      [] header.typ \in {"Puback", "Pubrec", "Pubrel", "Pubcomp", "Unsuback"} ->
           PidPacket(header.typ, buf)
      [] header.typ = "Subscribe" ->
           WithRest(Subscribe_from_buffer(Body_of(header, buf)), Rest_of(header, buf))
      [] header.typ = "Suback" ->
           WithRest(Suback_from_buffer(Body_of(header, buf)), Rest_of(header, buf))
      [] header.typ = "Unsubscribe" ->
           WithRest(Unsubscribe_from_buffer(Body_of(header, buf)), Rest_of(header, buf))

\* the outcomes of decode: Ok(Some(packet)), Ok(None), Err(error), or a panic
Complete(p, rest) == [kind |-> "Complete", packet |-> p, err |-> NoErr, rest |-> rest]

Incomplete(rest) == [kind |-> "Incomplete", packet |-> 0, err |-> NoErr, rest |-> rest]

Error(e, rest) == [kind |-> "Error", packet |-> 0, err |-> e, rest |-> rest]

Abort(rest) == [kind |-> "Panic", packet |-> 0, err |-> NoErr, rest |-> rest]

\* decode, lines 12-13: Ok(Some(read_packet(header, buffer)?))
decode_packet(p) ==
    IF p.kind = "Panic" THEN Abort(p.rest)
    ELSE IF p.kind = "Err" THEN Error(p.err, p.rest)
    ELSE Complete(p.val, p.rest)

\* decode after read_header returned h, removing the header bytes too early
decode_header_early_split(buf, h) ==
    IF h.kind = "Panic" THEN Abort(buf)
    ELSE IF h.kind = "Err" THEN Incomplete(buf)
    ELSE IF Len(buf) >= h.val.header.len + h.val.size
         THEN decode_packet(read_packet(h.val.header, Drop(buf, h.val.size)))
    ELSE Incomplete(Drop(buf, h.val.size))

\* decode that removes the header bytes before it knows the body is there
decode_early_split(buf) == decode_header_early_split(buf, read_header(buf))

\* decode after read_header returned h
decode_header(buf, h) ==
    IF h.kind = "Panic" THEN Abort(buf)
    ELSE IF h.kind = "Err" THEN Incomplete(buf)
    ELSE IF Len(buf) >= h.val.header.len + h.val.size
         THEN decode_packet(read_packet(h.val.header, Drop(buf, h.val.size)))
    ELSE Incomplete(buf)

\* decode
decode(buf) == decode_header(buf, read_header(buf))

(***************************************************************************)
(* src/encoder.rs is not part of the sources at hand: the primitive        *)
(* writers and the dispatcher are modelled from sections 4.1 and 4.5.  A   *)
(* sink is the bytes written so far and the capacity left (remaining_mut). *)
(***************************************************************************)
Sink(cap) == [bytes |-> <<>>, cap |-> cap]

Put(buf, bs) == [bytes |-> buf.bytes \o bs, cap |-> buf.cap - Len(bs)]

\* check_remaining
check_remaining(buf, len) ==
    IF buf.cap < len THEN Err(MkErr("WriteZero", 0), buf) ELSE Ok(0, buf)

\* the number of bytes of the variable-byte form of a length
varint_size(len) ==
    IF len < 128 THEN 1 ELSE IF len < 16384 THEN 2 ELSE IF len < 2097152 THEN 3 ELSE 4

RECURSIVE varint_bytes(_)
\* the variable-byte form: low 7 bits first, bit 7 set while more follow
varint_bytes(x) ==
    IF x < 128 THEN <<x>> ELSE <<(x % 128) + 128>> \o varint_bytes(x \div 128)

\* write_length: Ok(len + size of the length field) with the field written
write_length(len, buf) ==
    IF len > 268435455 THEN Err(MkErr("InvalidLength", len), buf)
    ELSE Try(check_remaining(buf, len + varint_size(len)), LAMBDA c :
             Ok(len + varint_size(len), Put(buf, varint_bytes(len))))

\* write_string: a two-byte big-endian length, then the bytes
write_string(s, buf) == Put(buf, <<Len(s) \div 256, Len(s) % 256>> \o s)

\* Pid::to_buffer
Pid_to_buffer(pid, buf) == Put(buf, <<pid \div 256, pid % 256>>)

(***************************************************************************)
(* src/publish.rs, src/subscribe.rs: the encoders.  The result is          *)
(* Ok(write_len) or Err, with the sink in field rest.                      *)
(***************************************************************************)
\* the length of a Publish without the two bytes of the Pid
Publish_length_no_pid(p) == Len(p.topic_name) + 2 + Len(p.payload)

\* the length Publish::to_buffer computes up-front
Publish_length(p) ==
    Len(p.topic_name) + (IF p.qospid.qos = 0 THEN 2 ELSE 4) + Len(p.payload)

\* the first byte Publish::to_buffer writes
Publish_header(p) ==
    48 + p.qospid.qos * 2 + (IF p.dup THEN 8 ELSE 0) + (IF p.retain THEN 1 ELSE 0)

\* the Pid Publish::to_buffer writes for QoS 1 and 2
Publish_pid(qospid, buf) == IF qospid.qos = 0 THEN buf ELSE Pid_to_buffer(qospid.pid, buf)

\* Publish::to_buffer
Publish_to_buffer(p, buf) ==
    Try(check_remaining(buf, 1), LAMBDA c :
        Try(write_length(Publish_length(p), Put(buf, <<Publish_header(p)>>)), LAMBDA w :
            Ok(w.val + 1,
               Put(Publish_pid(p.qospid, write_string(p.topic_name, w.rest)), p.payload))))

RECURSIVE SumLen(_, _)
\* the sum over a list of a per-entry length
SumLen(xs, extra) ==
    IF xs = <<>> THEN 0 ELSE Len(Head(xs)) + extra + SumLen(Tail(xs), extra)

\* the topic paths of a list of SubscribeTopic
Paths(topics) == [i \in 1..Len(topics) |-> topics[i].topic_path]

\* the length Subscribe::to_buffer computes up-front
Subscribe_length(p) == 2 + SumLen(Paths(p.topics), 2 + 1)

RECURSIVE Subscribe_topics(_, _)
\* the second loop of Subscribe::to_buffer
Subscribe_topics(topics, buf) ==
    IF topics = <<>> THEN buf
    ELSE Subscribe_topics(Tail(topics),
             Put(write_string(Head(topics).topic_path, buf), <<Head(topics).qos>>))

\* Subscribe::to_buffer
Subscribe_to_buffer(p, buf) ==
    Try(check_remaining(buf, 1), LAMBDA c :
        Try(write_length(Subscribe_length(p), Put(buf, <<130>>)), LAMBDA w :
            Ok(w.val + 1, Subscribe_topics(p.topics, Pid_to_buffer(p.pid, w.rest)))))

\* the length Unsubscribe::to_buffer computes up-front
Unsubscribe_length(p) == 2 + SumLen(p.topics, 2)

RECURSIVE Unsubscribe_topics(_, _)
\* the second loop of Unsubscribe::to_buffer
Unsubscribe_topics(topics, buf) ==
    IF topics = <<>> THEN buf
    ELSE Unsubscribe_topics(Tail(topics), write_string(Head(topics), buf))

\* Unsubscribe::to_buffer
Unsubscribe_to_buffer(p, buf) ==
    Try(check_remaining(buf, 1), LAMBDA c :
        Try(write_length(Unsubscribe_length(p), Put(buf, <<162>>)), LAMBDA w :
            Ok(w.val + 1, Unsubscribe_topics(p.topics, Pid_to_buffer(p.pid, w.rest)))))

\* the length Suback::to_buffer computes up-front
Suback_length(p) == 2 + Len(p.return_codes)

\* Suback::to_buffer
Suback_to_buffer(p, buf) ==
    Try(check_remaining(buf, 1), LAMBDA c :
        Try(write_length(Suback_length(p), Put(buf, <<144>>)), LAMBDA w :
            Ok(w.val + 1, Put(Pid_to_buffer(p.pid, w.rest),
                              [i \in 1..Len(p.return_codes) |-> to_u8(p.return_codes[i])]))))

\* the first byte of the packets that have no body or a Pid only
FirstByte(typ) ==
    CASE typ = "Puback" -> 64
      [] typ = "Pubrec" -> 80
      [] typ = "Pubrel" -> 98
      [] typ = "Pubcomp" -> 112
      [] typ = "Unsuback" -> 176
      [] typ = "Pingreq" -> 192
      [] typ = "Pingresp" -> 208
      [] typ = "Disconnect" -> 224

\* encode of a Pid-only packet: four bytes
Pid_packet_to_buffer(p, buf) ==
    Try(check_remaining(buf, 4), LAMBDA c :
        Ok(4, Pid_to_buffer(p.pid, Put(buf, <<FirstByte(p.type), 2>>))))

\* encode of Pingreq, Pingresp, Disconnect: two bytes
Empty_packet_to_buffer(p, buf) ==
    Try(check_remaining(buf, 2), LAMBDA c : Ok(2, Put(buf, <<FirstByte(p.type), 0>>)))

\* encode
encode(p, buf) ==
    CASE p.type = "Publish" -> Publish_to_buffer(p, buf)
      [] p.type = "Subscribe" -> Subscribe_to_buffer(p, buf)
      [] p.type = "Unsubscribe" -> Unsubscribe_to_buffer(p, buf)
      [] p.type = "Suback" -> Suback_to_buffer(p, buf)
      [] p.type \in {"Puback", "Pubrec", "Pubrel", "Pubcomp", "Unsuback"} ->
           Pid_packet_to_buffer(p, buf)
      [] p.type \in {"Pingreq", "Pingresp", "Disconnect"} -> Empty_packet_to_buffer(p, buf)

(***************************************************************************)
(* The inputs.                                                             *)
(***************************************************************************)
SeqsUpTo(S, n) == UNION {[1..k -> S] : k \in 0..n}

Pids == {42, 65535}

\* "", "a/b", "e-acute"
Topics == {<<>>, <<97, 47, 98>>, <<195, 169>>}

LongPayload == [i \in 1..LongLen |-> i]

Payloads == {s \in {<<>>, <<0, 255>>, LongPayload} : Len(s) <= PayloadLen}

QosPids == {[qos |-> 0, pid |-> 0]} \cup [qos : {1, 2}, pid : Pids]

SubscribeTopics == [topic_path : {<<97>>, <<195, 169>>}, qos : {0, 1, 2}]

ReturnCodes == {Failure, Success(0), Success(1), Success(2)}

\* capacities of the sink handed to encode
SinkCaps == {0, 1, 3, 1000}

\* first bytes of raw input: every kind of legal and illegal type/flags byte
RawHeaders == {0, 32, 48, 54, 64, 66, 130, 144, 162, 192, 240}

\* remaining-length fields of raw input
RawLengths == {<<n>> : n \in 0..MaxRawLen}

\* remaining-length fields of two to five bytes, and unfinished ones
LongLengths ==
    {<<128>>, <<128, 1>>, <<131, 0>>, <<255, 255>>, <<128, 128, 1>>, <<128, 128, 128, 1>>,
     <<255, 255, 255, 127>>, <<255, 255, 255, 255>>, <<255, 255, 255, 255, 255>>}

RawBytes == {0, 1, 97, 192}

\* what a raw body starts with: nothing, or (Subscribe, Unsubscribe) a Pid
RawStarts(hd) == IF hd \in {130, 162} THEN {<<>>, <<0, 42>>} ELSE {<<>>}

RawInputs ==
    {<<hd>> \o len \o body :
        hd \in RawHeaders, len \in LongLengths, body \in SeqsUpTo(RawBytes, 1)} \cup
    UNION {{<<hd>> \o len \o start \o body :
               len \in RawLengths, start \in RawStarts(hd), body \in SeqsUpTo(RawBytes, MaxBody)} :
           hd \in RawHeaders}

\* the inputs of the tests of src/decoder.rs
TestVectors ==
    {<<48, 10, 0, 3, 97, 47, 192, 104, 101, 108, 108, 111>>,
     <<16, 20, 0, 4, 77, 81, 84, 84, 4, 64, 0, 10, 0, 4, 116, 101, 115, 116, 0, 3, 109, 113>>}

(***************************************************************************)
(* The state machine.                                                      *)
(***************************************************************************)
NoSent == [kind |-> "none", packet |-> 0, bytes |-> <<>>, n |-> 0, err |-> NoErr, tail |-> <<>>]

NoLength == [kind |-> "none", len |-> 0, pos |-> 0]

NoResult == [kind |-> "none", packet |-> 0, err |-> NoErr, length |-> NoLength]

\* the record of what read_length returned
LengthOf(l) ==
    IF l.kind = "Ok" THEN [kind |-> "Some", len |-> l.val.len, pos |-> l.val.pos]
    ELSE IF l.kind = "Err" THEN [NoLength EXCEPT !.kind = "None"]
    ELSE [NoLength EXCEPT !.kind = "Panic"]

\* what read_length returned to read_header during a decode of buf
LengthRead(buf) == IF Len(buf) > 1 THEN LengthOf(read_length(buf, 1)) ELSE NoLength

NoRt == [kind |-> "none", packet |-> 0, payload |-> 0, length |-> 0, written |-> 0,
         consumed |-> 0, same |-> FALSE]

Init ==
    /\ wire = <<>>
    /\ buffer = <<>>
    /\ sent = NoSent
    /\ before = <<>>
    /\ result = NoResult
    /\ pc = "open"
    /\ capacity = PayloadLen
    /\ rt = NoRt

\* the bytes encode wrote for p go onto the wire, unless encode failed
Sent(p, e) ==
    /\ sent' = [kind |-> IF e.kind = "Ok" THEN "packet" ELSE "failed", packet |-> p,
                bytes |-> e.rest.bytes, n |-> e.val, err |-> e.err, tail |-> <<>>]
    /\ wire' = IF e.kind = "Ok" THEN e.rest.bytes ELSE <<>>

\* the peer encodes packet p into a sink of capacity cap and sends the bytes
Send(p, cap) ==
    /\ pc = "open"
    /\ sent.kind = "none"
    /\ Sent(p, encode(p, Sink(cap)))
    /\ UNCHANGED <<buffer, before, result, pc, capacity, rt>>

EncodePublish ==
    \E dup \in BOOLEAN, retain \in BOOLEAN, qospid \in QosPids, topic \in Topics,
       payload \in Payloads, cap \in SinkCaps :
        Send([type |-> "Publish", dup |-> dup, qospid |-> qospid, retain |-> retain,
              topic_name |-> topic, payload |-> payload], cap)

EncodeSubscribe ==
    \E pid \in Pids, topics \in SeqsUpTo(SubscribeTopics, SubReq), cap \in SinkCaps :
        Send([type |-> "Subscribe", pid |-> pid, topics |-> topics], cap)

EncodeUnsubscribe ==
    \E pid \in Pids, topics \in SeqsUpTo(Topics, UnsubReq), cap \in SinkCaps :
        Send([type |-> "Unsubscribe", pid |-> pid, topics |-> topics], cap)

EncodeSuback ==
    \E pid \in Pids, codes \in SeqsUpTo(ReturnCodes, SubackReq), cap \in SinkCaps :
        Send([type |-> "Suback", pid |-> pid, return_codes |-> codes], cap)

EncodePid ==
    \E typ \in {"Puback", "Pubrec", "Pubrel", "Pubcomp", "Unsuback"}, pid \in Pids,
       cap \in SinkCaps :
        Send([type |-> typ, pid |-> pid], cap)

EncodeEmpty ==
    \E typ \in {"Pingreq", "Pingresp", "Disconnect"}, cap \in SinkCaps :
        Send([type |-> typ], cap)

\* the peer sends a second packet (a Pingreq) right behind the first
Pipeline ==
    /\ pc = "open"
    /\ sent.kind = "packet"
    /\ sent.tail = <<>>
    /\ wire = sent.bytes
    /\ buffer = <<>>
    /\ wire' = wire \o <<192, 0>>
    /\ sent' = [sent EXCEPT !.tail = <<192, 0>>]
    /\ UNCHANGED <<buffer, before, result, pc, capacity, rt>>

\* the peer sends bytes that no encoder produced
SendRaw ==
    /\ pc = "open"
    /\ sent.kind = "none"
    /\ wire' \in RawInputs
    /\ sent' = [NoSent EXCEPT !.kind = "raw"]
    /\ UNCHANGED <<buffer, before, result, pc, capacity, rt>>

\* the peer sends one of the inputs of the decoder tests
SendVector ==
    /\ pc = "open"
    /\ sent.kind = "none"
    /\ wire' \in TestVectors
    /\ sent' = [NoSent EXCEPT !.kind = "raw"]
    /\ UNCHANGED <<buffer, before, result, pc, capacity, rt>>

\* the transport appends the next k bytes of the wire to the accumulator
Deliver ==
    /\ pc = "open"
    /\ \E k \in 1..Len(wire) :
           /\ Len(buffer) + k <= MaxPrefix \/ k = Len(wire)
           /\ buffer' = buffer \o Take(wire, k)
           /\ wire' = Drop(wire, k)
    /\ before' = <<>>
    /\ result' = NoResult
    /\ UNCHANGED <<sent, pc, capacity, rt>>

\* the caller runs decode on the accumulator; after Ok(None) it waits for bytes,
\* after an error it closes the stream, a panic ends the program
Decoding(d) ==
    /\ result' = [kind |-> d.kind, packet |-> d.packet, err |-> d.err,
                  length |-> LengthRead(buffer)]
    /\ buffer' = d.rest
    /\ pc' = CASE d.kind = "Panic" -> "aborted"
               [] d.kind = "Error" -> "closed"
               [] OTHER -> "open"

Decode ==
    /\ pc = "open"
    /\ result.kind # "Incomplete"
    /\ Decoding(decode(buffer))
    /\ before' = buffer
    /\ UNCHANGED <<wire, sent, capacity, rt>>

Next ==
    \/ EncodePublish
    \/ EncodeSubscribe
    \/ EncodeUnsubscribe
    \/ EncodeSuback
    \/ EncodePid
    \/ EncodeEmpty
    \/ Pipeline
    \/ SendRaw
    \/ SendVector
    \/ Deliver
    \/ Decode

Spec == Init /\ [][Next]_vars

(***************************************************************************)
(* The round trip as a caller runs it: encode a packet into an empty sink, *)
(* decode the bytes written.  The packets go up to the sizes that need a   *)
(* length field of three and of four bytes; the state keeps the outcome    *)
(* and the packet without its payload bytes.                               *)
(***************************************************************************)
Zeros(n) == [i \in 1..n |-> 0]

PayloadSizes == (0..MaxSmall) \cup {LongLen, LargeLen, HugeLen}

\* capacity of a sink that takes every packet
SinkAll == 268435460

InitRoundTrip ==
    /\ wire = <<>>
    /\ buffer = <<>>
    /\ sent = NoSent
    /\ before = <<>>
    /\ result = NoResult
    /\ pc = "open"
    /\ capacity = HugeLen + MaxSmall
    /\ rt = NoRt

\* the outcome d of decoding the bytes that encode wrote for p
Outcome(p, shown, payload, bytes, written, d) ==
    [kind |-> d.kind, packet |-> shown, payload |-> payload, length |-> Len(bytes),
     written |-> written, consumed |-> Len(bytes) - Len(d.rest),
     same |-> d.kind = "Complete" /\ d.packet = p]

\* decode what encode wrote
Decoded_back(p, shown, payload, e) ==
    Outcome(p, shown, payload, e.rest.bytes, e.val, decode(e.rest.bytes))

\* encode p, decode what encode wrote, keep the outcome
RoundTrip(p, shown, payload) ==
    /\ rt.kind = "none"
    /\ rt' = Decoded_back(p, shown, payload, encode(p, Sink(SinkAll)))
    /\ UNCHANGED <<wire, buffer, sent, before, result, pc, capacity>>

RoundTripPublish ==
    \E n \in PayloadSizes, dup \in BOOLEAN, retain \in BOOLEAN, qospid \in QosPids,
       topic \in Topics :
        /\ n > LongLen => ~dup /\ ~retain /\ topic = <<>>
        /\ RoundTrip([type |-> "Publish", dup |-> dup, qospid |-> qospid,
                      retain |-> retain, topic_name |-> topic, payload |-> Zeros(n)],
                     [type |-> "Publish", dup |-> dup, qospid |-> qospid,
                      retain |-> retain, topic_name |-> topic, payload |-> <<>>], n)

RoundTripSubscribe ==
    \E pid \in Pids, topics \in SeqsUpTo(SubscribeTopics, SubReq) :
        RoundTrip([type |-> "Subscribe", pid |-> pid, topics |-> topics],
                  [type |-> "Subscribe", pid |-> pid, topics |-> topics], 0)

RoundTripUnsubscribe ==
    \E pid \in Pids, topics \in SeqsUpTo(Topics, UnsubReq) :
        RoundTrip([type |-> "Unsubscribe", pid |-> pid, topics |-> topics],
                  [type |-> "Unsubscribe", pid |-> pid, topics |-> topics], 0)

RoundTripSuback ==
    \E pid \in Pids, codes \in SeqsUpTo(ReturnCodes, SubackReq) :
        RoundTrip([type |-> "Suback", pid |-> pid, return_codes |-> codes],
                  [type |-> "Suback", pid |-> pid, return_codes |-> codes], 0)

RoundTripPid ==
    \E typ \in {"Puback", "Pubrec", "Pubrel", "Pubcomp", "Unsuback"}, pid \in Pids :
        RoundTrip([type |-> typ, pid |-> pid], [type |-> typ, pid |-> pid], 0)

RoundTripEmpty ==
    \E typ \in {"Pingreq", "Pingresp", "Disconnect"} :
        RoundTrip([type |-> typ], [type |-> typ], 0)

NextRoundTrip ==
    \/ RoundTripPublish
    \/ RoundTripSubscribe
    \/ RoundTripUnsubscribe
    \/ RoundTripSuback
    \/ RoundTripPid
    \/ RoundTripEmpty

SpecRoundTrip == InitRoundTrip /\ [][NextRoundTrip]_vars

(***************************************************************************)
(* The wire format as sections 4.1 to 4.3 define it, for stating the       *)
(* properties: the frame of an accumulator.                                *)
(***************************************************************************)
\* the accumulator s carries a finished length field of n bytes
WellFormedLen(s, n) ==
    /\ n \in 1..4
    /\ Len(s) >= 1 + n
    /\ \A i \in 1..(n - 1) : s[1 + i] >= 128
    /\ s[1 + n] < 128

RECURSIVE LenValue(_, _)
\* the value of a length field of n bytes: low 7 bits times 128^i
LenValue(s, n) ==
    IF n = 0 THEN 0 ELSE LenValue(s, n - 1) + (s[1 + n] % 128) * (128 ^ (n - 1))

\* the number of bytes of the length field of s, 0 when there is none
LenBytes(s) == IF \E n \in 1..4 : WellFormedLen(s, n)
               THEN CHOOSE n \in 1..4 : WellFormedLen(s, n)
               ELSE 0

\* header size plus remaining length
FrameSize(s) == 1 + LenBytes(s) + LenValue(s, LenBytes(s))

\* s holds a legal fixed header and the whole body it declares
Framed(s) ==
    /\ Len(s) >= 2
    /\ FlagsOk(s[1])
    /\ LenBytes(s) > 0
    /\ Len(s) >= FrameSize(s)

\* the body of a framed accumulator
Body(s) == SubSeq(s, 2 + LenBytes(s), FrameSize(s))

\* a decode has just returned
Decoded == result.kind # "none"

(***************************************************************************)
(* C1: whenever decode returns Incomplete (Ok(None)), the accumulator      *)
(* after the call is byte-identical to the accumulator before the call.    *)
(***************************************************************************)
C1_IncompleteLeavesAccumulator ==
    result.kind = "Incomplete" => buffer = before

\* decode parsed a header, found the body short and returned Incomplete
C1_Witness ==
    /\ result.kind = "Incomplete"
    /\ Len(before) >= 2
    /\ FlagsOk(before[1])
    /\ LenBytes(before) > 0
    /\ Len(before) < FrameSize(before)
    /\ buffer = before

(***************************************************************************)
(* C2: whenever decode returns Complete(packet), it has removed exactly    *)
(* header_size + remaining_length leading bytes, for every packet type and *)
(* whatever remaining length the header declares.                          *)
(***************************************************************************)
C2_CompleteRemovesFrame ==
    result.kind = "Complete" =>
        /\ LenBytes(before) > 0
        /\ Len(before) >= FrameSize(before)
        /\ buffer = Drop(before, FrameSize(before))

(***************************************************************************)
(* C3: decode on a strict prefix of a valid encoded packet returns         *)
(* Incomplete and leaves the accumulator unchanged.                        *)
(***************************************************************************)
\* the accumulator decode was called on is a strict prefix of the packet sent
OnStrictPrefix ==
    /\ Decoded
    /\ sent.kind = "packet"
    /\ Len(before) < Len(sent.bytes)
    /\ before = Take(sent.bytes, Len(before))
    /\ before \o wire = sent.bytes \o sent.tail

C3_PrefixStability ==
    OnStrictPrefix => result.kind = "Incomplete" /\ buffer = before

(***************************************************************************)
(* C4: decoding the bytes encode produced for a valid packet p yields      *)
(* Complete(p) and consumes exactly the bytes encode produced.             *)
(***************************************************************************)
C4_RoundTrip ==
    rt.kind # "none" =>
        /\ rt.kind = "Complete"
        /\ rt.same
        /\ rt.consumed = rt.length

\* the same, for the packets whose length field has at most three bytes
C4_RoundTripUpToThreeBytes ==
    rt.kind # "none" /\ rt.length < 2097152 =>
        /\ rt.kind = "Complete"
        /\ rt.same
        /\ rt.consumed = rt.length

(***************************************************************************)
(* C5: when the first four bytes in the length position all have the       *)
(* continuation bit set, so that a fifth length byte would be required,    *)
(* decode returns Error(InvalidLength).                                    *)
(***************************************************************************)
FifthLengthByteRequired(s) ==
    /\ Len(s) >= 6
    /\ FlagsOk(s[1])
    /\ \A i \in 2..5 : s[i] >= 128

C5_VarintCap ==
    Decoded /\ FifthLengthByteRequired(before) =>
        result.kind = "Error" /\ result.err.name = "InvalidLength"

(***************************************************************************)
(* C6: for an accumulator of at least 2 bytes whose first byte is not a    *)
(* legal type/flags byte, decode returns Error(InvalidHeader).             *)
(***************************************************************************)
C6_InvalidHeader ==
    Decoded /\ Len(before) >= 2 /\ ~FlagsOk(before[1]) =>
        result.kind = "Error" /\ result.err.name = "InvalidHeader"

(***************************************************************************)
(* The first length-prefixed string of a framed packet: the topic name of  *)
(* a Publish, the first topic filter of a Subscribe or Unsubscribe whose   *)
(* Pid is accepted.                                                        *)
(***************************************************************************)
\* the offset in the body of the first string field, -1 when there is none
StringOffset(s) ==
    LET typ == s[1] \div 16
        body == Body(s)
    IN  IF typ = 3 THEN 0
        ELSE IF typ \in {8, 10} /\ Len(body) >= 2 /\ body[1] * 256 + body[2] # 0 THEN 2
        ELSE -1

\* the framed accumulator s has a first string field with its length prefix
HasStringPrefix(s) ==
    /\ Framed(s)
    /\ StringOffset(s) >= 0
    /\ Len(Body(s)) >= StringOffset(s) + 2

\* the length its prefix declares
Declared(s) == Body(s)[StringOffset(s) + 1] * 256 + Body(s)[StringOffset(s) + 2]

\* the bytes of the body after the prefix
AfterPrefix(s) == Len(Body(s)) - StringOffset(s) - 2

\* the bytes of the accumulator after the prefix
AfterPrefixInAccumulator(s) == Len(s) - 1 - LenBytes(s) - StringOffset(s) - 2

\* the declared bytes of the string
StringBytes(s) == SubSeq(Body(s), StringOffset(s) + 3, StringOffset(s) + 2 + Declared(s))

\* a byte that occurs in no UTF-8 text: 0xC0, 0xC1, 0xF5..0xFF
HasBadByte(str) == \E i \in 1..Len(str) : str[i] \in {192, 193} \/ str[i] >= 245

\* the strings of a decoded packet
Strings(p) ==
    CASE p.type = "Publish" -> <<p.topic_name>>
      [] p.type = "Subscribe" -> Paths(p.topics)
      [] p.type = "Unsubscribe" -> p.topics
      [] OTHER -> <<>>

\* the input of test::inner_length_too_long
InnerLengthTooLong ==
    <<16, 20, 0, 4, 77, 81, 84, 84, 4, 64, 0, 10, 0, 4, 116, 101, 115, 116, 0, 3, 109, 113>>

C9_ReadLength ==
    Decoded /\ Len(before) >= 2 /\ LenBytes(before) > 0 =>
        result.length = [kind |-> "Some", len |-> LenValue(before, LenBytes(before)),
                         pos |-> LenBytes(before)]

(***************************************************************************)
(* C10: encode of a Publish, Subscribe, Unsubscribe or Suback writes       *)
(* exactly 1 + varint_size(remaining_length) + remaining_length bytes, the *)
(* remaining length being the one written in the header; for Publish it is *)
(* 2 + len(topic) + (2 if QoS > 0 else 0) + len(payload).                  *)
(***************************************************************************)
\* the size of the shortest length field that holds v
ShortestField(v) == CHOOSE n \in 1..4 : v < 128 ^ n /\ (n > 1 => v >= 128 ^ (n - 1))

Encoded(types) == sent.kind = "packet" /\ sent.packet.type \in types

C10_EncoderLengthAgreement ==
    /\ Encoded({"Publish", "Subscribe", "Unsubscribe", "Suback"}) =>
           /\ LenBytes(sent.bytes) > 0
           /\ LenBytes(sent.bytes) = ShortestField(LenValue(sent.bytes, LenBytes(sent.bytes)))
           /\ Len(sent.bytes) = FrameSize(sent.bytes)
    /\ Encoded({"Publish"}) =>
           LenValue(sent.bytes, LenBytes(sent.bytes)) =
               2 + Len(sent.packet.topic_name)
                 + (IF sent.packet.qospid.qos > 0 THEN 2 ELSE 0)
                 + Len(sent.packet.payload)

\* a Publish with a Pid whose remaining length takes two bytes was encoded
C10_Witness ==
    /\ Encoded({"Publish"})
    /\ sent.packet.qospid.qos > 0
    /\ LenBytes(sent.bytes) = 2
    /\ Len(sent.bytes) = FrameSize(sent.bytes)

(***************************************************************************)
(* C11: decode never returns a Subscribe, Suback or Unsubscribe whose list *)
(* (topics / return_codes) is empty; a fully framed Subscribe, Suback or   *)
(* Unsubscribe whose body is the packet identifier only is rejected with   *)
(* an error.                                                               *)
(***************************************************************************)
\* s is a framed Subscribe, Suback or Unsubscribe whose body is two bytes
PidOnlyBody(s) ==
    /\ Framed(s)
    /\ s[1] \div 16 \in {8, 9, 10}
    /\ LenValue(s, LenBytes(s)) = 2

C11_NoEmptyList ==
    /\ result.kind = "Complete" /\ result.packet.type \in {"Subscribe", "Unsubscribe"} =>
           result.packet.topics # <<>>
    /\ result.kind = "Complete" /\ result.packet.type = "Suback" =>
           result.packet.return_codes # <<>>
    /\ Decoded /\ PidOnlyBody(before) => result.kind = "Error"

(***************************************************************************)
(* C12: for every accumulator that holds a legal fixed header and at least *)
(* header_size + remaining_length bytes, decode returns Complete or Error  *)
(* whatever the body holds, never aborts, and reads no byte beyond the     *)
(* declared body.                                                          *)
(***************************************************************************)
C12_Totality ==
    Decoded /\ Framed(before) =>
        /\ result.kind \in {"Complete", "Error"}
        /\ Len(before) - Len(buffer) <= FrameSize(before)

====
